---- MODULE Spec2Model ----
(***************************************************************************)
(* A model of src/code/student_code.py: the custom 2-D convolution         *)
(* operator CustomConv2DFunction (forward / backward), its wrapper         *)
(* CustomConv2d, and the adversarial attack PGDAttack.                     *)
(*                                                                         *)
(* A tensor is a record [shape, data]: data is the row-major (contiguous)  *)
(* sequence of its elements, so that view / reshape keep data and change   *)
(* shape, exactly as torch does.  Element values are integers: the model   *)
(* follows the index arithmetic and the sums of the code, not the          *)
(* rounding of floating point.                                             *)
(***************************************************************************)
EXTENDS Integers, Sequences, FiniteSets, TLC

VARIABLES input_feats, weight, bias, bias_requires_grad, ctx, last, made, used,
          frames, attack

vars == <<input_feats, weight, bias, bias_requires_grad, ctx, last, made, used,
          frames, attack>>

(***************************************************************************)
(* Bounds of the model.                                                    *)
(***************************************************************************)
MaxN == 2
MaxC == 2
MaxH == 3
MaxW == 3
MaxK == 2
MaxStride == 2
MaxPad == 1
MaxCtx == 2
MaxUses == 2

(***************************************************************************)
(* Tensors.                                                                *)
(***************************************************************************)
\* s[1] + ... + s[n]
RECURSIVE SumTo(_, _)
SumTo(s, n) == IF n = 0 THEN 0 ELSE s[n] + SumTo(s, n - 1)

RECURSIVE SeqProd(_)
SeqProd(s) == IF s = <<>> THEN 1 ELSE Head(s) * SeqProd(Tail(s))

Numel(shape) == SeqProd(shape)

\* Python's None where a tensor is expected
NoneT == [shape |-> <<>>, data |-> <<>>]

IsNone(x) == x = NoneT

Tensor(shape, data) == [shape |-> shape, data |-> data]

\* x[a,b] , x[a,b,c] and x[a,b,c,d] with 0-based indices
At2(x, a, b) == x.data[a * x.shape[2] + b + 1]

At3(x, a, b, c) == x.data[(a * x.shape[2] + b) * x.shape[3] + c + 1]

At4(x, a, b, c, d) ==
    x.data[((a * x.shape[2] + b) * x.shape[3] + c) * x.shape[4] + d + 1]

\* number of sliding-window positions along one axis
Blocks(size, k, padding, stride) == ((size + 2 * padding - k) \div stride) + 1

\* torch.nn.functional.unfold on a 4-D tensor: (N, C, H, W) -> (N, C*kh*kw, L)
unfoldOk(x, kh, kw, padding, stride) ==
    /\ Len(x.shape) = 4
    /\ kh > 0 /\ kw > 0 /\ stride > 0 /\ padding >= 0
    /\ Blocks(x.shape[3], kh, padding, stride) >= 1
    /\ Blocks(x.shape[4], kw, padding, stride) >= 1

unfold(x, kh, kw, padding, stride) ==
    LET N  == x.shape[1]
        C  == x.shape[2]
        H  == x.shape[3]
        W  == x.shape[4]
        Lh == Blocks(H, kh, padding, stride)
        Lw == Blocks(W, kw, padding, stride)
        L  == Lh * Lw
        R  == C * kh * kw
        elem(idx) ==
            LET n == idx \div (R * L)
                r == (idx \div L) % R
                l == idx % L
                c == r \div (kh * kw)
                u == (r \div kw) % kh
                v == r % kw
                h == (l \div Lw) * stride + u - padding
                w == (l % Lw) * stride + v - padding
            IN  IF h >= 0 /\ h < H /\ w >= 0 /\ w < W
                THEN At4(x, n, c, h, w) ELSE 0
    IN  Tensor(<<N, R, L>>, [k \in 1..(N * R * L) |-> elem(k - 1)])

\* torch.nn.functional.fold: (N, C*kh*kw, L) -> (N, C, oh, ow); every column
\* entry is added to the pixel it was taken from, entries that fall in the
\* padding border are dropped
foldOk(cols, oh, ow, kh, kw, padding, stride) ==
    /\ Len(cols.shape) = 3
    /\ kh > 0 /\ kw > 0 /\ stride > 0 /\ padding >= 0
    /\ cols.shape[2] % (kh * kw) = 0
    /\ Blocks(oh, kh, padding, stride) >= 1
    /\ Blocks(ow, kw, padding, stride) >= 1
    /\ cols.shape[3] = Blocks(oh, kh, padding, stride) * Blocks(ow, kw, padding, stride)

fold(cols, oh, ow, kh, kw, padding, stride) ==
    LET N  == cols.shape[1]
        C  == cols.shape[2] \div (kh * kw)
        Lh == Blocks(oh, kh, padding, stride)
        Lw == Blocks(ow, kw, padding, stride)
        part(n, c, h, w, uv) ==
            LET u  == uv \div kw
                v  == uv % kw
                hh == h + padding - u
                ww == w + padding - v
            IN  IF /\ hh >= 0 /\ hh % stride = 0 /\ hh \div stride < Lh
                   /\ ww >= 0 /\ ww % stride = 0 /\ ww \div stride < Lw
                THEN At3(cols, n, (c * kh + u) * kw + v,
                         (hh \div stride) * Lw + (ww \div stride))
                ELSE 0
        elem(idx) ==
            LET n == idx \div (C * oh * ow)
                c == (idx \div (oh * ow)) % C
                h == (idx \div ow) % oh
                w == idx % ow
            IN  SumTo([k \in 1..(kh * kw) |-> part(n, c, h, w, k - 1)], kh * kw)
    IN  Tensor(<<N, C, oh, ow>>, [k \in 1..(N * C * oh * ow) |-> elem(k - 1)])

\* x.transpose(1, 2) of a 3-D tensor (materialised)
transpose12(x) ==
    LET N == x.shape[1]
        A == x.shape[2]
        B == x.shape[3]
    IN  Tensor(<<N, B, A>>,
               [k \in 1..(N * A * B) |->
                   At3(x, (k - 1) \div (A * B), (k - 1) % A, ((k - 1) \div A) % B)])

\* x.t() of a 2-D tensor
t(x) ==
    LET A == x.shape[1]
        B == x.shape[2]
    IN  Tensor(<<B, A>>, [k \in 1..(A * B) |-> At2(x, (k - 1) % A, (k - 1) \div A)])

\* x.view(x.size(0), -1)
view2(x) == Tensor(<<x.shape[1], Numel(x.shape) \div x.shape[1]>>, x.data)

\* x.view(a, -1, k, k)
view4Ok(x, a, k) == a > 0 /\ k > 0 /\ Numel(x.shape) % (a * k * k) = 0

view4(x, a, k) == Tensor(<<a, Numel(x.shape) \div (a * k * k), k, k>>, x.data)

\* a.matmul(b): a is (N, A, B); b is (B, C) or, batched, (N', B, C) with the
\* batch dimensions broadcast against each other
matmulOk(a, b) ==
    /\ Len(a.shape) = 3
    /\ \/ Len(b.shape) = 2 /\ a.shape[3] = b.shape[1]
       \/ /\ Len(b.shape) = 3 /\ a.shape[3] = b.shape[2]
          /\ (a.shape[1] = b.shape[1] \/ a.shape[1] = 1 \/ b.shape[1] = 1)

matmul(a, b) ==
    LET A  == a.shape[2]
        B  == a.shape[3]
        b3 == Len(b.shape) = 3
        C  == IF b3 THEN b.shape[3] ELSE b.shape[2]
        N  == IF b3 /\ b.shape[1] > a.shape[1] THEN b.shape[1] ELSE a.shape[1]
        bat(x, n) == IF x.shape[1] = 1 THEN 0 ELSE n
        rhs(n, k, j) == IF b3 THEN At3(b, bat(b, n), k, j) ELSE At2(b, k, j)
        elem(idx) ==
            LET n == idx \div (A * C)
                i == (idx \div C) % A
                j == idx % C
            IN  SumTo([k \in 1..B |-> At3(a, bat(a, n), i, k - 1) * rhs(n, k - 1, j)], B)
    IN  Tensor(<<N, A, C>>, [k \in 1..(N * A * C) |-> elem(k - 1)])

\* bias.expand(size[:2]).unsqueeze(2).expand(size) for a 1-D bias
expandOk(b, size) == Len(b.shape) = 1 /\ (b.shape[1] = size[2] \/ b.shape[1] = 1)

expand(b, size) ==
    Tensor(size,
           [k \in 1..Numel(size) |->
               b.data[IF b.shape[1] = 1 THEN 1 ELSE (((k - 1) \div size[3]) % size[2]) + 1]])

\* a + b for tensors of one shape
add(a, b) == Tensor(a.shape, [k \in 1..Len(a.data) |-> a.data[k] + b.data[k]])

\* x.sum(0) of a 3-D tensor
sum0(x) ==
    LET N == x.shape[1]
        M == x.shape[2] * x.shape[3]
    IN  Tensor(<<x.shape[2], x.shape[3]>>,
               [k \in 1..M |-> SumTo([n \in 1..N |-> x.data[(n - 1) * M + k]], N)])

\* x.sum((0, 2, 3)) of a 4-D tensor
sum023(x) ==
    LET N == x.shape[1]
        C == x.shape[2]
        M == x.shape[3] * x.shape[4]
    IN  Tensor(<<C>>,
               [c \in 1..C |->
                   SumTo([k \in 1..(N * M) |->
                       x.data[(((k - 1) \div M) * C + (c - 1)) * M + ((k - 1) % M) + 1]],
                         N * M)])

(***************************************************************************)
(* The autograd context (ctx) of one forward call.  attrs holds the python *)
(* attributes the code sets on it, needs_bias_grad is needs_input_grad[2]  *)
(* (set by Function.apply from the bias argument), saved holds the tensors *)
(* given to save_for_backward, and released tells that the autograd engine *)
(* has freed them (it does so after a backward pass that was not asked to  *)
(* retain the graph).                                                      *)
(***************************************************************************)
NoAttrs == [a \in {} |-> 0]

FreshCtx ==
    [attrs |-> NoAttrs, needs_bias_grad |-> FALSE, saved |-> <<>>, released |-> FALSE]

\* the outcome of a call: how it ended, the tensor operations it performed
\* before it ended, what it returned, and the context and the argument
\* tensors as the call leaves them
Outcome(status, ops, out, c, x, w, b) ==
    [status |-> status, ops |-> ops, out |-> out, ctx |-> c,
     input_feats |-> x, weight |-> w, bias |-> b]

\* sanity_check without the assertion on the channel counts
sanity_check_no_channels(x, w, stride, padding) ==
    /\ w.shape[3] = w.shape[4]
    /\ stride > 0
    /\ padding >= 0

\* forward, "sanity check": the four assertions on the arguments
sanity_check(x, w, stride, padding) ==
    /\ w.shape[3] = w.shape[4]
    /\ x.shape[2] = w.shape[2]
    /\ stride > 0
    /\ padding >= 0

\* save_conv_params with height and width taken from the wrong axes
save_conv_params_swapped(c0, x, stride, padding) ==
    [c0 EXCEPT !.attrs =
        [stride |-> stride, padding |-> padding,
         input_height |-> x.shape[4], input_width |-> x.shape[3]]]

\* forward, "save the conv params"
save_conv_params(c0, x, stride, padding) ==
    [c0 EXCEPT !.attrs =
        [stride |-> stride, padding |-> padding,
         input_height |-> x.shape[3], input_width |-> x.shape[4]]]

\* forward, "make sure this is a valid convolution"
valid_convolution(x, kernel_size, padding) ==
    /\ kernel_size <= x.shape[3] + 2 * padding
    /\ kernel_size <= x.shape[4] + 2 * padding

\* out_unfold multiplying by the weight flattened in the reverse order of
\* the order the patches are flattened in
out_unfold_misordered(input_feats_unfold, weight_unfold) ==
    LET O == weight_unfold.shape[1]
        R == weight_unfold.shape[2]
        rev == Tensor(<<O, R>>,
                      [k \in 1..(O * R) |->
                          At2(weight_unfold, (k - 1) \div R, R - 1 - ((k - 1) % R))])
    IN  transpose12(matmul(transpose12(input_feats_unfold), t(rev)))

\* forward: input_feats_unfold.transpose(1,2).matmul(weight_unfold.t()).transpose(1,2)
out_unfold(input_feats_unfold, weight_unfold) ==
    transpose12(matmul(transpose12(input_feats_unfold), t(weight_unfold)))

\* out_dim with the padding counted on one side only
out_dim_one_side(size, padding, kernel_size, stride) ==
    ((size + padding - kernel_size) \div stride) + 1

\* forward: out_dim1 and out_dim2
out_dim(size, padding, kernel_size, stride) ==
    ((size + 2 * padding - kernel_size) \div stride) + 1

\* CustomConv2DFunction.forward
forward(c0, x, w, b, stride, padding) ==
    IF ~ sanity_check(x, w, stride, padding) THEN
        Outcome("AssertionError", <<>>, <<>>, c0, x, w, b)
    ELSE
    LET kernel_size == w.shape[3]
        c1 == save_conv_params(c0, x, stride, padding)
    IN
    IF ~ valid_convolution(x, kernel_size, padding) THEN
        Outcome("AssertionError", <<>>, <<>>, c1, x, w, b)
    ELSE IF ~ unfoldOk(x, kernel_size, kernel_size, padding, stride) THEN
        Outcome("RuntimeError", <<>>, <<>>, c1, x, w, b)
    ELSE
    LET input_feats_unfold == unfold(x, kernel_size, kernel_size, padding, stride)
        weight_unfold == view2(w)
    IN
    IF ~ matmulOk(transpose12(input_feats_unfold), t(weight_unfold)) THEN
        Outcome("RuntimeError", <<"unfold">>, <<>>, c1, x, w, b)
    ELSE
    LET out_nobias == out_unfold(input_feats_unfold, weight_unfold)
    IN
    IF IsNone(b) THEN
        \* None has no attribute expand
        Outcome("AttributeError", <<"unfold", "matmul">>, <<>>, c1, x, w, b)
    ELSE IF ~ expandOk(b, out_nobias.shape) THEN
        Outcome("RuntimeError", <<"unfold", "matmul">>, <<>>, c1, x, w, b)
    ELSE
    LET bias_unfold == expand(b, out_nobias.shape)
        out_biased == add(out_nobias, bias_unfold)
        out_dim1 == out_dim(c1.attrs.input_height, c1.attrs.padding, kernel_size, stride)
        out_dim2 == out_dim(c1.attrs.input_width, c1.attrs.padding, kernel_size, stride)
    IN
    IF ~ foldOk(out_biased, out_dim1, out_dim2, 1, 1, 0, 1) THEN
        Outcome("RuntimeError", <<"unfold", "matmul", "add">>, <<>>, c1, x, w, b)
    ELSE
    LET out_fold == fold(out_biased, out_dim1, out_dim2, 1, 1, 0, 1)
        c2 == [c1 EXCEPT !.saved = <<input_feats_unfold, weight_unfold, w, b>>]
    IN  Outcome("ok", <<"unfold", "matmul", "add", "fold">>, <<out_fold>>, c2, x, w, b)

\* backward: grad_output_unfold.transpose(1,2).matmul(weight_unfold).transpose(1,2)
grad_input_unfold(grad_output_unfold, weight_unfold) ==
    transpose12(matmul(transpose12(grad_output_unfold), weight_unfold))

\* grad_input_fold with a stride that steps over whole kernels, as if the
\* patches did not overlap
grad_input_fold_no_overlap(input_height, input_width, kernel_size, padding, stride) ==
    <<<<input_height, input_width>>, <<kernel_size, kernel_size>>, padding, kernel_size>>

\* backward: the arguments of the fold that makes grad_input, as
\* <<output_size, kernel_size, padding, stride>>
grad_input_fold(input_height, input_width, kernel_size, padding, stride) ==
    <<<<input_height, input_width>>, <<kernel_size, kernel_size>>, padding, stride>>

\* backward: input_feats_unfold.matmul(grad_output_unfold.transpose(1,2)).transpose(1,2)
grad_weight_unfold(input_feats_unfold, grad_output_unfold) ==
    transpose12(matmul(input_feats_unfold, transpose12(grad_output_unfold)))

\* grad_weight_sum that keeps the first batch element instead of summing
grad_weight_sum_first(gwu) ==
    Tensor(<<gwu.shape[2], gwu.shape[3]>>,
           [k \in 1..(gwu.shape[2] * gwu.shape[3]) |-> gwu.data[k]])

\* backward: grad_weight_unfold.sum((0)), the tensor that is then viewed as
\* (grad_weight_unfold.size(1), -1, kernel_size, kernel_size)
grad_weight_sum(gwu) == sum0(gwu)

\* grad_bias computed whether or not the gradient of the bias is needed
grad_bias_always(b, needs_bias_grad, grad_output) ==
    IF ~ IsNone(b) THEN sum023(grad_output) ELSE NoneT

\* backward: the grad_bias slot
grad_bias(b, needs_bias_grad, grad_output) ==
    IF ~ IsNone(b) /\ needs_bias_grad THEN sum023(grad_output) ELSE NoneT

\* CustomConv2DFunction.backward
backward(c0, grad_output) ==
    IF c0.released THEN
        \* ctx.saved_tensors of freed buffers
        Outcome("RuntimeError", <<>>, <<>>, c0, NoneT, NoneT, NoneT)
    ELSE IF Len(c0.saved) # 4 THEN
        \* unpacking the empty tuple of a context nothing was saved in
        Outcome("ValueError", <<>>, <<>>, c0, NoneT, NoneT, NoneT)
    ELSE
    LET input_feats_unfold == c0.saved[1]
        weight_unfold == c0.saved[2]
        w == c0.saved[3]
        b == c0.saved[4]
        kernel_size == w.shape[3]
        stride == c0.attrs.stride
        padding == c0.attrs.padding
        input_height == c0.attrs.input_height
        input_width == c0.attrs.input_width
        Err(ops) == Outcome("RuntimeError", ops, <<>>, c0, NoneT, w, b)
    IN
    IF ~ unfoldOk(grad_output, 1, 1, 0, 1) THEN Err(<<>>)
    ELSE
    LET grad_output_unfold == unfold(grad_output, 1, 1, 0, 1)
    IN
    IF ~ matmulOk(transpose12(grad_output_unfold), weight_unfold) THEN Err(<<"unfold">>)
    ELSE
    LET giu == grad_input_unfold(grad_output_unfold, weight_unfold)
        f == grad_input_fold(input_height, input_width, kernel_size, padding, stride)
    IN
    IF ~ foldOk(giu, f[1][1], f[1][2], f[2][1], f[2][2], f[3], f[4])
    THEN Err(<<"unfold", "matmul">>)
    ELSE
    LET grad_input == fold(giu, f[1][1], f[1][2], f[2][1], f[2][2], f[3], f[4])
    IN
    IF ~ matmulOk(input_feats_unfold, transpose12(grad_output_unfold))
    THEN Err(<<"unfold", "matmul", "fold">>)
    ELSE
    LET gwu == grad_weight_unfold(input_feats_unfold, grad_output_unfold)
    IN
    IF ~ view4Ok(grad_weight_sum(gwu), gwu.shape[2], kernel_size)
    THEN Err(<<"unfold", "matmul", "fold", "matmul", "sum">>)
    ELSE
    LET grad_weight == view4(grad_weight_sum(gwu), gwu.shape[2], kernel_size)
    IN  Outcome("ok", <<"unfold", "matmul", "fold", "matmul", "sum">>,
                <<grad_input, grad_weight, grad_bias(b, c0.needs_bias_grad, grad_output),
                  NoneT, NoneT>>,
                c0, NoneT, w, b)

(***************************************************************************)
(* Inputs.                                                                 *)
(***************************************************************************)
Ones(shape) == Tensor(shape, [k \in 1..Numel(shape) |-> 1])

Zeros(shape) == Tensor(shape, [k \in 1..Numel(shape) |-> 0])

\* distinct values of both signs: 1, -2, 3, -4, ...
Ramp(shape) ==
    Tensor(shape, [k \in 1..Numel(shape) |-> IF k % 2 = 1 THEN k ELSE 0 - k])

\* distinct positive values with another step: 2, 5, 8, ...
Ramp3(shape) == Tensor(shape, [k \in 1..Numel(shape) |-> 3 * k - 1])

\* the shapes of input and weight: every well-formed pair within the bounds,
\* and the same with a weight of another channel count or a non-square kernel
Shapes ==
    { <<x, w>> \in
        { <<N, C, H, W>> : N \in 1..MaxN, C \in 1..MaxC, H \in 1..MaxH, W \in 1..MaxW }
        \X { <<O, C, K1, K2>> : O \in 1..MaxC, C \in 1..(MaxC + 1),
                                K1 \in 1..MaxK, K2 \in 1..(MaxK + 1) } :
        \/ w[2] = x[2] /\ w[3] = w[4]
        \/ w[2] = x[2] + 1 /\ w[3] = w[4]
        \/ w[2] = x[2] /\ w[4] = w[3] + 1 }

\* the two scenarios of the specification's section 8
Scenarios ==
    { [x |-> Ones(<<1, 1, 5, 5>>), w |-> Ones(<<1, 1, 3, 3>>), b |-> Zeros(<<1>>)],
      [x |-> Ramp(<<1, 1, 4, 4>>), w |-> Ramp3(<<1, 1, 3, 3>>), b |-> Ramp(<<1>>)] }

Cases ==
    Scenarios \cup
    { [x |-> Ramp(s[1]), w |-> Ramp3(s[2]),
       b |-> IF has_bias THEN Ramp(<<s[2][1]>>) ELSE NoneT] :
        s \in Shapes, has_bias \in BOOLEAN }

NoCall == [op |-> "none"]

\* no forward call is under way in a thread
NoFrame == [pc |-> "none"]

\* no attack is under way
NoAttack == [pc |-> "none"]

InitWith(cases) ==
    /\ \E k \in cases :
          /\ input_feats = k.x
          /\ weight = k.w
          /\ bias = k.b
    /\ bias_requires_grad \in IF IsNone(bias) THEN {FALSE} ELSE BOOLEAN
    /\ ctx = [c \in 1..MaxCtx |-> FreshCtx]
    /\ made = [c \in 1..MaxCtx |-> NoCall]
    /\ used = [c \in 1..MaxCtx |-> [calls |-> 0, done |-> 0]]
    /\ last = NoCall
    /\ frames = [c \in 1..MaxCtx |-> NoFrame]
    /\ attack = NoAttack

Init == InitWith(Cases)

\* custom_conv2d(input, weight, bias, stride, padding): Function.apply makes
\* the context c and runs forward on it
Forward(c, stride, padding) ==
    /\ made[c] = NoCall
    /\ \E r \in { forward([ctx[c] EXCEPT !.needs_bias_grad = bias_requires_grad],
                            input_feats, weight, bias, stride, padding) } :
       LET call == [op |-> "forward", c |-> c, stride |-> stride, padding |-> padding,
                    status |-> r.status, ops |-> r.ops, out |-> r.out]
       IN  /\ ctx' = [ctx EXCEPT ![c] = r.ctx]
           /\ input_feats' = r.input_feats
           /\ weight' = r.weight
           /\ bias' = r.bias
           /\ last' = call
           /\ made' = [made EXCEPT ![c] = call]
    /\ UNCHANGED <<bias_requires_grad, used, frames, attack>>

\* the gradient handed to backward: of the shape of the forward output, or
\* with one more batch element, channel or row
GradShape(c, variant) ==
    LET s == IF made[c].op = "forward" /\ made[c].status = "ok"
             THEN made[c].out[1].shape ELSE <<1, 1, 1, 1>>
    IN  CASE variant = "match" -> s
          [] variant = "batch" -> <<s[1] + 1, s[2], s[3], s[4]>>
          [] variant = "chan"  -> <<s[1], s[2] + 1, s[3], s[4]>>
          [] variant = "rows"  -> <<s[1], s[2], s[3] + 1, s[4]>>

Variants(c) ==
    IF made[c].op = "forward" /\ made[c].status = "ok"
    THEN {"match", "batch", "chan", "rows"} ELSE {"match"}

\* CustomConv2DFunction.backward on context c, the context having been
\* handed to fewer than limit passes.  used[c] counts the passes c was
\* handed to and those of them that returned gradients.  The tensors saved
\* in c are the caller's weight and bias themselves, not copies.
Backward(c, variant, limit) ==
    /\ used[c].calls < limit
    /\ \E g \in { Ramp(GradShape(c, variant)) } : \E r \in { backward(ctx[c], g) } :
       LET aliased == ~ ctx[c].released /\ Len(ctx[c].saved) = 4
       IN  /\ ctx' = [ctx EXCEPT ![c] = r.ctx]
           /\ weight' = IF aliased THEN r.weight ELSE weight
           /\ bias' = IF aliased THEN r.bias ELSE bias
           /\ last' = [op |-> "backward", c |-> c, grad_output |-> g,
                       status |-> r.status, ops |-> r.ops, out |-> r.out]
           /\ used' = [used EXCEPT ![c] =
                         [calls |-> @.calls + 1,
                          done |-> IF r.status = "ok" THEN @.done + 1 ELSE @.done]]
    /\ UNCHANGED <<input_feats, bias_requires_grad, made, frames, attack>>

\* the autograd engine frees the tensors saved in context c once the
\* backward pass on c has returned, when the pass was not asked to retain
\* the graph; ctx.saved_tensors raises from then on
Release(c) ==
    /\ last.op = "backward"
    /\ last.c = c
    /\ last.status = "ok"
    /\ ~ ctx[c].released
    /\ ctx' = [ctx EXCEPT ![c].released = TRUE]
    /\ UNCHANGED <<input_feats, weight, bias, bias_requires_grad, last, made, used,
                   frames, attack>>

(***************************************************************************)
(* Spec: one forward pass and, when it returned an output, one backward    *)
(* pass for it, over every input within the bounds.                        *)
(***************************************************************************)
Next ==
    \/ \E stride \in -1..MaxStride, padding \in -1..MaxPad : Forward(1, stride, padding)
    \/ /\ made[1].op = "forward" /\ made[1].status = "ok"
       /\ \E variant \in Variants(1) : Backward(1, variant, 1)

Spec == Init /\ [][Next]_vars

(***************************************************************************)
(* SpecLife: the life of several contexts, each made by one forward pass   *)
(* and handed to backward up to MaxUses times, with the engine freeing the *)
(* saved tensors or not, over a small input.                               *)
(***************************************************************************)
LifeCases ==
    { [x |-> Ramp(<<1, 1, 2, 3>>), w |-> Ramp3(<<1, 1, 2, 2>>), b |-> Ramp(<<1>>)] }

InitLife == InitWith(LifeCases)

NextLife ==
    \/ \E c \in 1..MaxCtx, padding \in 0..MaxPad : Forward(c, padding + 1, padding)
    \/ \E c \in 1..MaxCtx : Backward(c, "match", MaxUses)
    \/ \E c \in 1..MaxCtx : Release(c)

SpecLife == InitLife /\ [][NextLife]_vars

(***************************************************************************)
(* SpecConc: forward calls running in several threads, one call a thread,  *)
(* over one weight and one bias that no thread writes.  A step is one      *)
(* statement (or one group of statements on local names) of forward; the   *)
(* threads take their steps in any order.  frames[c] holds the arguments   *)
(* and the local names of the call of thread c and the statement it is at. *)
(***************************************************************************)
\* every call is handed the context of another call
ctx_shared(c) == 1

\* Function.apply makes a context of its own for every call
ctx_of(c) == c

\* ctx.name = value
setattr(c0, name, value) ==
    [c0 EXCEPT !.attrs =
        [a \in (DOMAIN c0.attrs) \cup {name} |-> IF a = name THEN value ELSE c0.attrs[a]]]

hasattr(c0, name) == name \in DOMAIN c0.attrs

\* the calls the threads make: two that differ in stride, padding, input
\* height and input width, and one whose kernel does not fit its input
ConcCalls ==
    { [x |-> Ramp(<<1, 1, 2, 3>>), stride |-> 1, padding |-> 0],
      [x |-> Ramp(<<2, 1, 3, 2>>), stride |-> 2, padding |-> 1],
      [x |-> Ramp(<<1, 1, 1, 3>>), stride |-> 1, padding |-> 0] }

ConcCases ==
    { [x |-> NoneT, w |-> Ramp3(<<2, 1, 2, 2>>), b |-> Ramp(<<2>>)] }

InitConc == InitWith(ConcCases)

\* the frame of thread c moves to the statement at pc with the local names
\* of f
Goto(c, f, pc) == frames' = [frames EXCEPT ![c] = [f EXCEPT !.pc = pc]]

\* the call of thread c ends, by an exception or by returning out
Leave(c, status, out) ==
    LET f == frames[c]
        call == [op |-> "forward", c |-> c, stride |-> f.stride, padding |-> f.padding,
                 status |-> status, ops |-> f.ops, out |-> out]
    IN  /\ Goto(c, f, "done")
        /\ made' = [made EXCEPT ![c] = call]
        /\ last' = call

Stay == UNCHANGED <<made, last>>

Shared == UNCHANGED <<input_feats, weight, bias, bias_requires_grad, used, attack>>

\* custom_conv2d(x, weight, bias, stride, padding) in thread c
Call(c, k) ==
    /\ frames[c] = NoFrame
    /\ made[c] = NoCall
    /\ frames' = [frames EXCEPT ![c] =
                    [pc |-> "sanity_check", input_feats |-> k.x, stride |-> k.stride,
                     padding |-> k.padding, kernel_size |-> 0,
                     input_feats_unfold |-> NoneT, weight_unfold |-> NoneT,
                     out_unfold |-> NoneT, out_dim1 |-> 0, out_dim2 |-> 0,
                     out_fold |-> NoneT, ops |-> <<>>]]
    /\ ctx' = [ctx EXCEPT ![ctx_of(c)] =
                 [FreshCtx EXCEPT !.needs_bias_grad = bias_requires_grad]]
    /\ Stay
    /\ Shared

\* forward, lines 42-47
SanityCheck(c) ==
    LET f == frames[c]
    IN  /\ f.pc = "sanity_check"
        /\ IF sanity_check(f.input_feats, weight, f.stride, f.padding)
           THEN Goto(c, [f EXCEPT !.kernel_size = weight.shape[3]], "save_stride") /\ Stay
           ELSE Leave(c, "AssertionError", <<>>)
        /\ UNCHANGED ctx
        /\ Shared

\* forward, line 48
SaveStride(c) ==
    LET f == frames[c]
    IN  /\ f.pc = "save_stride"
        /\ ctx' = [ctx EXCEPT ![ctx_of(c)] = setattr(@, "stride", f.stride)]
        /\ Goto(c, f, "save_padding")
        /\ Stay
        /\ Shared

\* forward, line 49
SavePadding(c) ==
    LET f == frames[c]
    IN  /\ f.pc = "save_padding"
        /\ ctx' = [ctx EXCEPT ![ctx_of(c)] = setattr(@, "padding", f.padding)]
        /\ Goto(c, f, "save_input_height")
        /\ Stay
        /\ Shared

\* forward, line 51
SaveInputHeight(c) ==
    LET f == frames[c]
    IN  /\ f.pc = "save_input_height"
        /\ ctx' = [ctx EXCEPT ![ctx_of(c)] =
                     setattr(@, "input_height", f.input_feats.shape[3])]
        /\ Goto(c, f, "save_input_width")
        /\ Stay
        /\ Shared

\* forward, line 52
SaveInputWidth(c) ==
    LET f == frames[c]
    IN  /\ f.pc = "save_input_width"
        /\ ctx' = [ctx EXCEPT ![ctx_of(c)] =
                     setattr(@, "input_width", f.input_feats.shape[4])]
        /\ Goto(c, f, "valid_convolution")
        /\ Stay
        /\ Shared

\* forward, lines 55-56
ValidConvolution(c) ==
    LET f == frames[c]
    IN  /\ f.pc = "valid_convolution"
        /\ IF valid_convolution(f.input_feats, f.kernel_size, f.padding)
           THEN Goto(c, f, "unfold") /\ Stay
           ELSE Leave(c, "AssertionError", <<>>)
        /\ UNCHANGED ctx
        /\ Shared

\* forward, lines 62-63
Unfold(c) ==
    LET f == frames[c]
    IN  /\ f.pc = "unfold"
        /\ IF unfoldOk(f.input_feats, f.kernel_size, f.kernel_size, f.padding, f.stride)
           THEN /\ Goto(c, [f EXCEPT
                              !.input_feats_unfold =
                                  unfold(f.input_feats, f.kernel_size, f.kernel_size,
                                         f.padding, f.stride),
                              !.weight_unfold = view2(weight),
                              !.ops = Append(@, "unfold")], "matmul")
                /\ Stay
           ELSE Leave(c, "RuntimeError", <<>>)
        /\ UNCHANGED ctx
        /\ Shared

\* forward, line 65
Matmul(c) ==
    LET f == frames[c]
    IN  /\ f.pc = "matmul"
        /\ IF matmulOk(transpose12(f.input_feats_unfold), t(f.weight_unfold))
           THEN /\ Goto(c, [f EXCEPT
                              !.out_unfold = out_unfold(f.input_feats_unfold, f.weight_unfold),
                              !.ops = Append(@, "matmul")], "add_bias")
                /\ Stay
           ELSE Leave(c, "RuntimeError", <<>>)
        /\ UNCHANGED ctx
        /\ Shared

\* forward, lines 66-67
AddBias(c) ==
    LET f == frames[c]
    IN  /\ f.pc = "add_bias"
        /\ IF IsNone(bias) THEN Leave(c, "AttributeError", <<>>)
           ELSE IF ~ expandOk(bias, f.out_unfold.shape) THEN Leave(c, "RuntimeError", <<>>)
           ELSE /\ Goto(c, [f EXCEPT
                              !.out_unfold = add(@, expand(bias, f.out_unfold.shape)),
                              !.ops = Append(@, "add")], "out_dim")
                /\ Stay
        /\ UNCHANGED ctx
        /\ Shared

\* forward, lines 69-70: the sizes are read back from the context
OutDim(c) ==
    LET f == frames[c]
        own == ctx[ctx_of(c)]
    IN  /\ f.pc = "out_dim"
        /\ IF hasattr(own, "input_height") /\ hasattr(own, "input_width")
                /\ hasattr(own, "padding")
           THEN /\ Goto(c, [f EXCEPT
                              !.out_dim1 = out_dim(own.attrs.input_height, own.attrs.padding,
                                                   f.kernel_size, f.stride),
                              !.out_dim2 = out_dim(own.attrs.input_width, own.attrs.padding,
                                                   f.kernel_size, f.stride)], "fold")
                /\ Stay
           ELSE Leave(c, "AttributeError", <<>>)
        /\ UNCHANGED ctx
        /\ Shared

\* forward, line 72
Fold(c) ==
    LET f == frames[c]
    IN  /\ f.pc = "fold"
        /\ IF foldOk(f.out_unfold, f.out_dim1, f.out_dim2, 1, 1, 0, 1)
           THEN /\ Goto(c, [f EXCEPT
                              !.out_fold = fold(f.out_unfold, f.out_dim1, f.out_dim2,
                                                1, 1, 0, 1),
                              !.ops = Append(@, "fold")], "save_for_backward")
                /\ Stay
           ELSE Leave(c, "RuntimeError", <<>>)
        /\ UNCHANGED ctx
        /\ Shared

\* forward, line 76
SaveForBackward(c) ==
    LET f == frames[c]
    IN  /\ f.pc = "save_for_backward"
        /\ ctx' = [ctx EXCEPT ![ctx_of(c)].saved =
                     <<f.input_feats_unfold, f.weight_unfold, weight, bias>>]
        /\ Goto(c, f, "return")
        /\ Stay
        /\ Shared

\* forward, line 78
Return(c) ==
    /\ frames[c].pc = "return"
    /\ Leave(c, "ok", <<frames[c].out_fold>>)
    /\ UNCHANGED ctx
    /\ Shared

NextConc ==
    \/ \E c \in 1..MaxCtx, k \in ConcCalls : Call(c, k)
    \/ \E c \in 1..MaxCtx : SanityCheck(c)
    \/ \E c \in 1..MaxCtx : SaveStride(c)
    \/ \E c \in 1..MaxCtx : SavePadding(c)
    \/ \E c \in 1..MaxCtx : SaveInputHeight(c)
    \/ \E c \in 1..MaxCtx : SaveInputWidth(c)
    \/ \E c \in 1..MaxCtx : ValidConvolution(c)
    \/ \E c \in 1..MaxCtx : Unfold(c)
    \/ \E c \in 1..MaxCtx : Matmul(c)
    \/ \E c \in 1..MaxCtx : AddBias(c)
    \/ \E c \in 1..MaxCtx : OutDim(c)
    \/ \E c \in 1..MaxCtx : Fold(c)
    \/ \E c \in 1..MaxCtx : SaveForBackward(c)
    \/ \E c \in 1..MaxCtx : Return(c)

SpecConc == InitConc /\ [][NextConc]_vars

(***************************************************************************)
(* SpecPGD: PGDAttack.  attack holds the fields of the PGDAttack object    *)
(* (num_steps, step_size, epsilon) and, during perturb, its arguments and  *)
(* local names.  The network and the loss are outside the model: the       *)
(* gradient that loss.backward() leaves in output.grad is any tensor of    *)
(* the shape of the input.  Pixel values, step_size and epsilon are        *)
(* integers, in one unit.                                                  *)
(***************************************************************************)
MaxPixel == 1
MaxEpsilon == 2
MaxStepSize == 3
MaxNumSteps == 2

\* the values of an element of the gradient
GradValues == {-2, 0, 1}

\* the shape of the image handed to perturb
ImageShape == <<1, 1, 1, 2>>

Images ==
    { Tensor(ImageShape, d) : d \in [1..Numel(ImageShape) -> (0 - MaxPixel)..MaxPixel] }

Gradients ==
    { Tensor(ImageShape, d) : d \in [1..Numel(ImageShape) -> GradValues] }

\* x.sign()
sign(x) ==
    Tensor(x.shape,
           [k \in 1..Len(x.data) |->
               IF x.data[k] > 0 THEN 1 ELSE IF x.data[k] < 0 THEN 0 - 1 ELSE 0])

\* a * x for a number a
mul(a, x) == Tensor(x.shape, [k \in 1..Len(x.data) |-> a * x.data[k]])

\* x + a for a number a
add_scalar(x, a) == Tensor(x.shape, [k \in 1..Len(x.data) |-> x.data[k] + a])

\* clamp that applies the upper limit only
clamp_max_only(x, min, max) ==
    Tensor(x.shape,
           [k \in 1..Len(x.data) |->
               IF x.data[k] <= max.data[k] THEN x.data[k] ELSE max.data[k]])

\* torch.clamp(x, min=min, max=max) for tensors min and max:
\* minimum(maximum(x, min), max), element by element
clamp(x, min, max) ==
    Tensor(x.shape,
           [k \in 1..Len(x.data) |->
               LET low == IF x.data[k] >= min.data[k] THEN x.data[k] ELSE min.data[k]
               IN  IF low <= max.data[k] THEN low ELSE max.data[k]])

\* PGDAttack.__init__
InitPGD ==
    /\ input_feats = NoneT
    /\ weight = NoneT
    /\ bias = NoneT
    /\ bias_requires_grad = FALSE
    /\ ctx = [c \in 1..MaxCtx |-> FreshCtx]
    /\ made = [c \in 1..MaxCtx |-> NoCall]
    /\ used = [c \in 1..MaxCtx |-> [calls |-> 0, done |-> 0]]
    /\ last = NoCall
    /\ frames = [c \in 1..MaxCtx |-> NoFrame]
    /\ \E num_steps \in 0..MaxNumSteps, step_size \in (0 - 1)..MaxStepSize,
          epsilon \in 0..MaxEpsilon :
          attack = [pc |-> "init", num_steps |-> num_steps, step_size |-> step_size,
                    epsilon |-> epsilon]

Rest ==
    UNCHANGED <<input_feats, weight, bias, bias_requires_grad, ctx, last, made, used,
                frames>>

\* perturb, lines 428-440: output is a clone of input, the parameters of
\* the network and input stop requiring gradients, output requires one
Perturb(input) ==
    /\ attack.pc = "init"
    /\ attack' = [pc |-> "loop", num_steps |-> attack.num_steps,
                  step_size |-> attack.step_size, epsilon |-> attack.epsilon,
                  input |-> input, output |-> input, adv_img |-> NoneT,
                  input_requires_grad |-> FALSE, params_requires_grad |-> FALSE,
                  output_requires_grad |-> TRUE, steps |-> 0]
    /\ Rest

\* perturb, lines 442-454: one iteration of the loop, grad being what
\* least_conf_loss.backward() leaves in output.grad
Iterate(grad) ==
    /\ attack.pc = "loop"
    /\ attack.steps < attack.num_steps
    /\ \E adv_img \in { add(attack.output, mul(attack.step_size, sign(grad))) } :
          attack' = [attack EXCEPT
                        !.adv_img = adv_img,
                        !.output = clamp(adv_img,
                                         add_scalar(attack.input, 0 - attack.epsilon),
                                         add_scalar(attack.input, attack.epsilon)),
                        !.output_requires_grad = FALSE,
                        !.steps = @ + 1]
    /\ Rest

\* perturb, line 456
ReturnOutput ==
    /\ attack.pc = "loop"
    /\ attack.steps = attack.num_steps
    /\ attack' = [attack EXCEPT !.pc = "returned"]
    /\ Rest

NextPGD ==
    \/ \E input \in Images : Perturb(input)
    \/ \E grad \in Gradients : Iterate(grad)
    \/ ReturnOutput

SpecPGD == InitPGD /\ [][NextPGD]_vars

(***************************************************************************)
(* The reference the claims compare the operator with: the convolution and *)
(* its gradients written element by element, from the input, the weight    *)
(* and the gradient themselves.                                            *)
(***************************************************************************)
\* the input padded with zeros: xpad[n, c, hp, wp]
XPad(x, p, n, c, hp, wp) ==
    IF hp - p >= 0 /\ hp - p < x.shape[3] /\ wp - p >= 0 /\ wp - p < x.shape[4]
    THEN At4(x, n, c, hp - p, wp - p) ELSE 0

RefSize(size, k, s, p) == ((size + 2 * p - k) \div s) + 1

\* the sum over c, u, v of weight[o,c,u,v] * xpad[n,c,i*s+u,j*s+v]
RefCorrAt(x, w, s, p, n, o, i, j) ==
    SumTo([c \in 1..w.shape[2] |->
        SumTo([u \in 1..w.shape[3] |->
            SumTo([v \in 1..w.shape[4] |->
                At4(w, o, c - 1, u - 1, v - 1)
                    * XPad(x, p, n, c - 1, i * s + u - 1, j * s + v - 1)],
                  w.shape[4])],
              w.shape[3])],
          w.shape[2])

\* the sum over o and the output positions (i, j) whose window covers pixel
\* (h, wd) of weight[o,c,h+p-i*s,wd+p-j*s] * grad_output[n,o,i,j]
RefGradInputAt(w, g, s, p, n, c, h, wd) ==
    SumTo([o \in 1..g.shape[2] |->
        SumTo([i \in 1..g.shape[3] |->
            SumTo([j \in 1..g.shape[4] |->
                LET u == h + p - (i - 1) * s
                    v == wd + p - (j - 1) * s
                IN  IF u >= 0 /\ u < w.shape[3] /\ v >= 0 /\ v < w.shape[4]
                    THEN At4(w, o - 1, c, u, v) * At4(g, n, o - 1, i - 1, j - 1)
                    ELSE 0],
                  g.shape[4])],
              g.shape[3])],
          g.shape[2])

\* the sum over n and the output positions (i, j) of
\* grad_output[n,o,i,j] * xpad[n,c,i*s+u,j*s+v]
RefGradWeightAt(x, g, s, p, o, c, u, v) ==
    SumTo([n \in 1..g.shape[1] |->
        SumTo([i \in 1..g.shape[3] |->
            SumTo([j \in 1..g.shape[4] |->
                At4(g, n - 1, o, i - 1, j - 1)
                    * XPad(x, p, n - 1, c, (i - 1) * s + u, (j - 1) * s + v)],
                  g.shape[4])],
              g.shape[3])],
          g.shape[1])

\* the sum of grad_output[n,o,i,j] over n, i, j
RefGradBiasAt(g, o) ==
    SumTo([n \in 1..g.shape[1] |->
        SumTo([i \in 1..g.shape[3] |->
            SumTo([j \in 1..g.shape[4] |-> At4(g, n - 1, o, i - 1, j - 1)], g.shape[4])],
              g.shape[3])],
          g.shape[1])

\* the preconditions of forward, on the arguments of the last call
Preconditions(stride, padding) ==
    /\ weight.shape[3] = weight.shape[4]
    /\ input_feats.shape[2] = weight.shape[2]
    /\ stride > 0
    /\ padding >= 0
    /\ weight.shape[3] <= input_feats.shape[3] + 2 * padding
    /\ weight.shape[3] <= input_feats.shape[4] + 2 * padding

\* the last call was a forward call whose arguments satisfy the preconditions
ValidForward ==
    /\ last.op = "forward"
    /\ Preconditions(last.stride, last.padding)

\* the last call was a backward call on the context of a forward call that
\* returned an output, with a gradient of the shape of that output, and it
\* returned gradients
MatchedBackward ==
    /\ last.op = "backward"
    /\ last.status = "ok"
    /\ made[last.c].op = "forward"
    /\ made[last.c].status = "ok"
    /\ last.grad_output.shape = made[last.c].out[1].shape

\* the expected shape of the output of a forward call
RefOutShape(stride, padding) ==
    <<input_feats.shape[1], weight.shape[1],
      RefSize(input_feats.shape[3], weight.shape[3], stride, padding),
      RefSize(input_feats.shape[4], weight.shape[3], stride, padding)>>

\* every index of a 4-D shape, 0-based
Idx4(shape) ==
    (0..(shape[1] - 1)) \X (0..(shape[2] - 1)) \X (0..(shape[3] - 1)) \X (0..(shape[4] - 1))

(***************************************************************************)
(* C1.  For every input, weight, bias, stride and padding that satisfy the *)
(* preconditions, forward returns                                          *)
(*   out[n,o,i,j] = bias[o] + sum over c,u,v of                            *)
(*                  weight[o,c,u,v] * xpad[n,c,i*s+u,j*s+v],               *)
(* and an all-ones (1,1,5,5) input with an all-ones (1,1,3,3) weight, bias *)
(* 0, stride 1 and padding 0 gives a (1,1,3,3) output of nines.            *)
(***************************************************************************)
C1_ForwardIsCrossCorrelation ==
    (ValidForward /\ ~ IsNone(bias)) =>
        /\ last.status = "ok"
        /\ last.out[1].shape = RefOutShape(last.stride, last.padding)
        /\ \A q \in Idx4(last.out[1].shape) :
              At4(last.out[1], q[1], q[2], q[3], q[4])
                  = bias.data[q[2] + 1]
                    + RefCorrAt(input_feats, weight, last.stride, last.padding,
                                q[1], q[2], q[3], q[4])
        /\ ( /\ input_feats = Ones(<<1, 1, 5, 5>>)
             /\ weight = Ones(<<1, 1, 3, 3>>)
             /\ bias = Zeros(<<1>>)
             /\ last.stride = 1
             /\ last.padding = 0 )
           => last.out[1] = Tensor(<<1, 1, 3, 3>>, <<9, 9, 9, 9, 9, 9, 9, 9, 9>>)

\* a forward call of two images, two input and two output channels, with a
\* 2x2 kernel, stride 2 and padding 1, has returned
C1_Witness ==
    /\ ValidForward
    /\ last.status = "ok"
    /\ input_feats.shape = <<2, 2, 3, 2>>
    /\ weight.shape = <<2, 2, 2, 2>>
    /\ last.stride = 2
    /\ last.padding = 1

(***************************************************************************)
(* C2.  For every accepted forward call the output shape is                *)
(* (N, C_out, floor((H+2p-K)/s)+1, floor((W+2p-K)/s)+1), both output sizes *)
(* are at least 1, and the number L of patch columns the unfold produced   *)
(* is the product of the two output sizes.                                 *)
(***************************************************************************)
C2_ShapeLaw ==
    /\ (ValidForward /\ ~ IsNone(bias)) => last.status = "ok"
    /\ (last.op = "forward" /\ last.status = "ok") =>
          /\ last.out[1].shape = RefOutShape(last.stride, last.padding)
          /\ Len(last.out[1].data) = Numel(last.out[1].shape)
          /\ last.out[1].shape[3] >= 1
          /\ last.out[1].shape[4] >= 1
          /\ ctx[last.c].saved[1].shape =
                <<input_feats.shape[1],
                  input_feats.shape[2] * weight.shape[3] * weight.shape[3],
                  last.out[1].shape[3] * last.out[1].shape[4]>>

\* an accepted call whose sizes do not divide evenly: H + 2p - K = 3 with
\* stride 2, and a width other than the height
C2_Witness ==
    /\ last.op = "forward"
    /\ last.status = "ok"
    /\ input_feats.shape[3] = 3
    /\ input_feats.shape[4] = 2
    /\ weight.shape[3] = 2
    /\ last.stride = 2
    /\ last.padding = 1
    /\ last.out[1].shape[3] = 2
    /\ last.out[1].shape[4] = 2

(***************************************************************************)
(* C3.  forward rejects every call that violates a precondition (kernel    *)
(* larger than H+2p or W+2p, channel mismatch, stride <= 0, padding < 0,   *)
(* non-square kernel) before any patch extraction, matrix product or other *)
(* tensor computation, and returns no output.                              *)
(***************************************************************************)
C3_PreconditionRejection ==
    (last.op = "forward" /\ ~ Preconditions(last.stride, last.padding)) =>
        /\ last.status = "AssertionError"
        /\ last.ops = <<>>
        /\ last.out = <<>>
        /\ ctx[last.c].saved = <<>>

\* a call rejected for its kernel not fitting the padded input, after the
\* other four checks passed
C3_Witness ==
    /\ last.op = "forward"
    /\ last.status = "AssertionError"
    /\ weight.shape[3] = weight.shape[4]
    /\ input_feats.shape[2] = weight.shape[2]
    /\ last.stride > 0
    /\ last.padding = 0
    /\ weight.shape[3] > input_feats.shape[4]
    /\ weight.shape[3] <= input_feats.shape[3]

(***************************************************************************)
(* C4.  Bias is optional: with bias None the forward pass completes and    *)
(* returns the cross-correlation of input and weight with no bias added.   *)
(***************************************************************************)
C4_BiasOptional ==
    (ValidForward /\ IsNone(bias)) =>
        /\ last.status = "ok"
        /\ last.out[1].shape = RefOutShape(last.stride, last.padding)
        /\ \A q \in Idx4(last.out[1].shape) :
              At4(last.out[1], q[1], q[2], q[3], q[4])
                  = RefCorrAt(input_feats, weight, last.stride, last.padding,
                              q[1], q[2], q[3], q[4])

\* the last call was the first backward pass on the context of a forward
\* call that returned an output, with a gradient of the shape of that output
ValidPair ==
    /\ last.op = "backward"
    /\ made[last.c].op = "forward"
    /\ made[last.c].status = "ok"
    /\ last.grad_output.shape = made[last.c].out[1].shape
    /\ used[last.c].calls = 1

(***************************************************************************)
(* C5.  For every valid forward/backward pair grad_input has the shape of  *)
(* the input and every pixel receives the sum of the contributions of all  *)
(* the windows that cover it:                                              *)
(*   grad_input[n,c,h,w] = sum over o and the (i,j) with                   *)
(*     0 <= h+p-i*s < K and 0 <= w+p-j*s < K of                            *)
(*     weight[o,c,h+p-i*s,w+p-j*s] * grad_output[n,o,i,j];                 *)
(* with a 4x4 input, a 3x3 kernel and stride 1 a centre pixel gets the     *)
(* contributions of all four windows.                                      *)
(***************************************************************************)
C5_GradInputAccumulates ==
    /\ ValidPair => last.status = "ok"
    /\ MatchedBackward =>
          /\ last.out[1].shape = input_feats.shape
          /\ \A q \in Idx4(input_feats.shape) :
                At4(last.out[1], q[1], q[2], q[3], q[4])
                    = RefGradInputAt(weight, last.grad_output,
                                     made[last.c].stride, made[last.c].padding,
                                     q[1], q[2], q[3], q[4])
          /\ ( /\ input_feats.shape = <<1, 1, 4, 4>>
               /\ weight.shape = <<1, 1, 3, 3>>
               /\ made[last.c].stride = 1
               /\ made[last.c].padding = 0 )
             => At4(last.out[1], 0, 0, 1, 1)
                  = At4(weight, 0, 0, 1, 1) * At4(last.grad_output, 0, 0, 0, 0)
                    + At4(weight, 0, 0, 1, 0) * At4(last.grad_output, 0, 0, 0, 1)
                    + At4(weight, 0, 0, 0, 1) * At4(last.grad_output, 0, 0, 1, 0)
                    + At4(weight, 0, 0, 0, 0) * At4(last.grad_output, 0, 0, 1, 1)

\* the backward pass of the 4x4 input with the 3x3 kernel and stride 1 has
\* returned: its four windows overlap
C5_Witness ==
    /\ MatchedBackward
    /\ input_feats.shape = <<1, 1, 4, 4>>
    /\ weight.shape = <<1, 1, 3, 3>>
    /\ made[last.c].stride = 1
    /\ made[last.c].padding = 0
    /\ last.grad_output.shape = <<1, 1, 2, 2>>

(***************************************************************************)
(* C6.  For every valid forward/backward pair grad_weight has the shape of *)
(* the weight and                                                          *)
(*   grad_weight[o,c,u,v] = sum over n and the output positions (i,j) of   *)
(*     grad_output[n,o,i,j] * xpad[n,c,i*s+u,j*s+v].                       *)
(***************************************************************************)
C6_GradWeight ==
    /\ ValidPair => last.status = "ok"
    /\ MatchedBackward =>
          /\ last.out[2].shape = weight.shape
          /\ \A q \in Idx4(weight.shape) :
                At4(last.out[2], q[1], q[2], q[3], q[4])
                    = RefGradWeightAt(input_feats, last.grad_output,
                                      made[last.c].stride, made[last.c].padding,
                                      q[1], q[2], q[3], q[4])

\* the backward pass of a batch of two images with two input and two output
\* channels, a 2x2 kernel and padding has returned
C6_Witness ==
    /\ MatchedBackward
    /\ input_feats.shape = <<2, 2, 2, 3>>
    /\ weight.shape = <<2, 2, 2, 2>>
    /\ made[last.c].stride = 1
    /\ made[last.c].padding = 1

(***************************************************************************)
(* C7.  backward returns grad_bias[o] = the sum of grad_output[n,o,i,j]    *)
(* over n, i, j when a bias was supplied and its gradient is requested;    *)
(* otherwise the grad_bias slot is None, and the slots of stride and       *)
(* padding are always None.                                                *)
(***************************************************************************)
C7_GradBias ==
    (last.op = "backward" /\ last.status = "ok") =>
        /\ Len(last.out) = 5
        /\ last.out[4] = NoneT
        /\ last.out[5] = NoneT
        /\ IF ~ IsNone(bias) /\ bias_requires_grad
           THEN /\ last.out[3].shape = <<weight.shape[1]>>
                /\ \A o \in 0..(weight.shape[1] - 1) :
                      last.out[3].data[o + 1] = RefGradBiasAt(last.grad_output, o)
           ELSE last.out[3] = NoneT

\* a backward pass has returned without a gradient for a bias that was
\* supplied, because none was requested
C7_Witness ==
    /\ MatchedBackward
    /\ ~ IsNone(bias)
    /\ ~ bias_requires_grad
    /\ last.out[3] = NoneT
    /\ last.grad_output.shape[1] = 2
    /\ last.grad_output.shape[2] = 2

(***************************************************************************)
(* C8.  A backward call whose grad_output does not have the shape of the   *)
(* output of its forward call fails with a shape-mismatch error before any *)
(* arithmetic: nothing is computed and no gradient is returned.            *)
(***************************************************************************)
C8_ShapeMismatchRejected ==
    ( /\ last.op = "backward"
      /\ made[last.c].op = "forward"
      /\ made[last.c].status = "ok"
      /\ last.grad_output.shape # made[last.c].out[1].shape )
    => /\ last.status # "ok"
       /\ last.ops = <<>>
       /\ last.out = <<>>

(***************************************************************************)
(* C9.  Each context is consumed by at most one backward call: a second    *)
(* backward on a consumed context, or a backward on a context no forward   *)
(* populated, ends in an error and produces no gradients.                  *)
(***************************************************************************)
C9_ConsumedAtMostOnce ==
    /\ \A c \in 1..MaxCtx : used[c].done <= 1
    /\ (last.op = "backward" /\ ~ (made[last.c].op = "forward" /\ made[last.c].status = "ok"))
          => (last.status # "ok" /\ last.out = <<>>)

(***************************************************************************)
(* C10.  No forward or backward call changes the input, the weight or the  *)
(* bias; a forward call writes only its own context; and the stride,       *)
(* padding, height and width backward reads from a context are those of    *)
(* the forward call that made it.                                          *)
(***************************************************************************)
CtxOfItsForward ==
    /\ \A c \in 1..MaxCtx :
          ctx[c].attrs # NoAttrs =>
              /\ made[c].op = "forward"
              /\ ctx[c].attrs = [stride |-> made[c].stride,
                                 padding |-> made[c].padding,
                                 input_height |-> input_feats.shape[3],
                                 input_width |-> input_feats.shape[4]]
    /\ MatchedBackward =>
          /\ last.out[1].shape = input_feats.shape
          /\ \A q \in Idx4(input_feats.shape) :
                At4(last.out[1], q[1], q[2], q[3], q[4])
                    = RefGradInputAt(weight, last.grad_output,
                                     made[last.c].stride, made[last.c].padding,
                                     q[1], q[2], q[3], q[4])

TensorsKept ==
    /\ input_feats' = input_feats
    /\ weight' = weight
    /\ bias' = bias
    /\ \A c \in 1..MaxCtx :
          (last'.op = "forward" /\ c # last'.c) => ctx'[c] = ctx[c]

C10_FrameAndContext == [][TensorsKept]_vars /\ []CtxOfItsForward

\* two contexts made by forward calls of different stride and padding, and
\* the backward pass of the first has returned after the second was made
C10_Witness ==
    /\ MatchedBackward
    /\ last.c = 1
    /\ made[2].op = "forward"
    /\ made[2].status = "ok"
    /\ made[1].stride # made[2].stride
    /\ made[1].padding # made[2].padding
    /\ used[2].calls = 0

(***************************************************************************)
(* C11: forward calls that run concurrently over one weight and one bias   *)
(* that none of them writes do not disturb one another.  Under every       *)
(* interleaving of their statements, a step of one call leaves the weight, *)
(* the bias and the context of every other call as they were; the          *)
(* attributes a call has written to its context so far are its own stride, *)
(* padding, input height and input width; and once a call has computed     *)
(* its output or has ended, its status, tensor operations, output and      *)
(* context (attributes and saved tensors) are those of the same call run   *)
(* alone by forward.                                                       *)
(***************************************************************************)
RunAlone(c) ==
    forward([FreshCtx EXCEPT !.needs_bias_grad = bias_requires_grad],
            frames[c].input_feats, weight, bias, frames[c].stride, frames[c].padding)

OwnParam(c, a) ==
    CASE a = "stride" -> frames[c].stride
      [] a = "padding" -> frames[c].padding
      [] a = "input_height" -> frames[c].input_feats.shape[3]
      [] a = "input_width" -> frames[c].input_feats.shape[4]

OwnContextOnly ==
    /\ weight' = weight
    /\ bias' = bias
    /\ \A c \in 1..MaxCtx : frames'[c] = frames[c] => ctx'[c] = ctx[c]

AsRunAlone ==
    \A c \in 1..MaxCtx :
        /\ frames[c].pc # "none" =>
              \A a \in DOMAIN ctx[c].attrs : ctx[c].attrs[a] = OwnParam(c, a)
        /\ frames[c].pc = "return" =>
              \A r \in { RunAlone(c) } :
                  /\ r.status = "ok"
                  /\ r.out = <<frames[c].out_fold>>
                  /\ r.ops = frames[c].ops
                  /\ r.ctx = ctx[c]
        /\ frames[c].pc = "done" =>
              \A r \in { RunAlone(c) } :
                  /\ r.status = made[c].status
                  /\ r.out = made[c].out
                  /\ r.ops = made[c].ops
                  /\ r.ctx = ctx[c]

C11_ConcurrentForwardsIndependent == [][OwnContextOnly]_vars /\ []AsRunAlone

\* two calls of different stride, padding, input height and input width
\* are under way at once, each has written its context and computed its
\* output, and neither has returned yet
C11_Witness ==
    /\ frames[1].pc = "return"
    /\ frames[2].pc = "return"
    /\ frames[1].stride # frames[2].stride
    /\ frames[1].padding # frames[2].padding
    /\ frames[1].input_feats.shape[3] # frames[2].input_feats.shape[3]
    /\ frames[1].input_feats.shape[4] # frames[2].input_feats.shape[4]
    /\ Len(ctx[1].saved) = 4
    /\ Len(ctx[2].saved) = 4
    /\ ctx[1].saved[1] # ctx[2].saved[1]

(***************************************************************************)
(* C12: PGDAttack.perturb keeps the adversarial sample within epsilon of   *)
(* the input under the L-infinity norm.  For epsilon >= 0, from the clone  *)
(* on, after every iteration and in the value returned, every element of   *)
(* output lies between the element of input minus epsilon and the element  *)
(* of input plus epsilon, whatever the gradients and the step_size are;    *)
(* and with num_steps = 0 the value returned equals input.                 *)
(***************************************************************************)
C12_WithinEpsilon ==
    attack.pc \in {"loop", "returned"} =>
        /\ attack.output.shape = attack.input.shape
        /\ \A k \in 1..Len(attack.input.data) :
              /\ attack.input.data[k] - attack.epsilon <= attack.output.data[k]
              /\ attack.output.data[k] <= attack.input.data[k] + attack.epsilon
        /\ (attack.pc = "returned" /\ attack.num_steps = 0) =>
              attack.output = attack.input

\* perturb has returned after MaxNumSteps iterations, the last of which
\* stepped above the range in one element and below it in another
C12_Witness ==
    /\ attack.pc = "returned"
    /\ attack.steps = MaxNumSteps
    /\ \E j, k \in 1..Len(attack.input.data) :
          /\ attack.adv_img.data[j] > attack.input.data[j] + attack.epsilon
          /\ attack.output.data[j] = attack.input.data[j] + attack.epsilon
          /\ attack.adv_img.data[k] < attack.input.data[k] - attack.epsilon
          /\ attack.output.data[k] = attack.input.data[k] - attack.epsilon

====
